---- MODULE Spec2Model ----
(***************************************************************************)
(* A model of main.py of pptx-api: the image fetch-and-normalise function  *)
(* fetch_image_bytes, the deck builder build_pptx, and the two routes      *)
(* POST /pptx/create and GET /files/{filename}.                            *)
(*                                                                         *)
(* Python strings are sequences of one-character strings, so that lower(), *)
(* `in` and endswith() are computed and not assumed.                       *)
(***************************************************************************)
EXTENDS Integers, Sequences, FiniteSets, TLC

VARIABLES
    fcall,          \* the call of fetch_image_bytes under test: url, response, HAS_CAIROSVG
    fret,           \* what that call did: a returned buffer or a raised exception
    HAS_CAIROSVG,   \* whether `import cairosvg` succeeded when the module was loaded
    files,          \* the names of the regular files in FILES_DIR
    nextId,         \* the next value uuid.uuid4() hands out (fresh on every call)
    pc,             \* where the request being handled stands in create_pptx/build_pptx
    req,            \* the request being handled: its file name and payload.footer
    doc,            \* prs.slides: per slide its pictures, captions, body and footer
    cur,            \* the slide loop's locals: s.images, the index of img, top
    net,            \* every GET and every normalisation of an image, in the order made
    responses,      \* the responses the service has sent to POST /pptx/create
    lastServe,      \* the last GET /files/{filename} and its response
    sent            \* the image items the clients put in their decks

fvars == <<fcall, fret>>
svars == <<HAS_CAIROSVG, files, nextId, pc, req, doc, cur, net, responses, lastServe,
           sent>>
vars == <<fcall, fret, HAS_CAIROSVG, files, nextId, pc, req, doc, cur, net, responses,
          lastServe, sent>>

-----------------------------------------------------------------------------
(* Python str operations *)

UpperChars == <<"A","B","C","D","E","F","G","H","I","J","K","L","M",
                "N","O","P","Q","R","S","T","U","V","W","X","Y","Z">>
LowerChars == <<"a","b","c","d","e","f","g","h","i","j","k","l","m",
                "n","o","p","q","r","s","t","u","v","w","x","y","z">>

LowerChar(c) ==
    IF \E i \in 1..Len(UpperChars) : UpperChars[i] = c
    THEN LowerChars[CHOOSE i \in 1..Len(UpperChars) : UpperChars[i] = c]
    ELSE c

\* str.lower()
lower(s) == [i \in 1..Len(s) |-> LowerChar(s[i])]

\* sub in s
contains(sub, s) ==
    \E i \in 0..(Len(s) - Len(sub)) : SubSeq(s, i + 1, i + Len(sub)) = sub

\* s.endswith(suf)
endswith(s, suf) ==
    /\ Len(suf) <= Len(s)
    /\ SubSeq(s, Len(s) - Len(suf) + 1, Len(s)) = suf

-----------------------------------------------------------------------------
(* The string literals of fetch_image_bytes *)

image_ == <<"i","m","a","g","e","/">>
image_svg == image_ \o <<"s","v","g">>
image_webp == image_ \o <<"w","e","b","p">>
image_png == image_ \o <<"p","n","g">>
image_jpeg == image_ \o <<"j","p","e","g">>
image_jpg == image_ \o <<"j","p","g">>
image_gif == image_ \o <<"g","i","f">>
dot_svg == <<".","s","v","g">>
dot_webp == <<".","w","e","b","p">>
dot_png == <<".","p","n","g">>
dot_jpg == <<".","j","p","g">>
dot_jpeg == <<".","j","p","e","g">>
dot_gif == <<".","g","i","f">>
unknown == <<"u","n","k","n","o","w","n">>

RasterTypes == {image_png, image_jpeg, image_jpg, image_gif}
RasterExts == {dot_png, dot_jpg, dot_jpeg, dot_gif}

-----------------------------------------------------------------------------
(* Byte buffers: the encoding the bytes really have, whether they decode,  *)
(* and who produced them (the origin server, cairosvg or Pillow).          *)

Encodings == {"svg", "webp", "png", "jpeg", "gif", "bmp", "html"}
\* What PIL.Image.open identifies from the bytes themselves.
PILFormats == {"webp", "png", "jpeg", "gif", "bmp"}

Bodies == [enc : Encodings, intact : BOOLEAN, by : {"origin"}]
NoBuf == [enc |-> "none", intact |-> FALSE, by |-> "none"]

Return(branch, buf) ==
    [kind |-> "return", branch |-> branch, buf |-> buf, exc |-> "none", msg |-> <<>>]
Raise(branch, exc, msg) ==
    [kind |-> "raise", branch |-> branch, buf |-> NoBuf, exc |-> exc, msg |-> msg]

\* No call made yet.
Pending == Raise("pending", "none", <<>>)

\* cairosvg.svg2png(bytestring=...): a PNG, or a parse error on anything that is not SVG
svg2png(body) ==
    IF body.enc = "svg" /\ body.intact
    THEN Return("svg", [enc |-> "png", intact |-> TRUE, by |-> "cairosvg"])
    ELSE Raise("svg", "ParseError", <<"svg2png">>)

\* Image.open(...).convert("RGBA") ; img.save(buf, format="PNG")
pil_to_png(body) ==
    IF body.enc \in PILFormats /\ body.intact
    THEN Return("webp", [enc |-> "png", intact |-> TRUE, by |-> "pil"])
    ELSE Raise("webp", "UnidentifiedImageError", <<"Image.open">>)

-----------------------------------------------------------------------------
(* fetch_image_bytes *)

\* A response: how the GET ended, the Content-Type header (if any), the body.
NoHeader == [present |-> FALSE, value |-> <<>>]
Header(v) == [present |-> TRUE, value |-> v]

\* requests.get(...) and r.raise_for_status()
get_raises(resp) == resp.status # "ok"

\* HTTPError, ConnectionError and Timeout: all of them requests.RequestException
get_exception(resp) == "RequestException"

\* The header as sent, without the .lower() of line 108.
declared_ct_as_sent(resp) == IF resp.ct.present THEN resp.ct.value ELSE <<>>

\* ct = (r.headers.get("Content-Type") or "").lower()
declared_ct(resp) == lower(IF resp.ct.present THEN resp.ct.value ELSE <<>>)

is_svg(ct, url_l) == contains(image_svg, ct) \/ endswith(url_l, dot_svg)

is_webp(ct, url_l) == contains(image_webp, ct) \/ endswith(url_l, dot_webp)

ct_is_raster(ct) == \E t \in RasterTypes : contains(t, ct)

\* Line 128 dropped: no fallback to the URL's extension.
url_is_raster_dropped(url_l) == FALSE

url_is_raster(url_l) == \E e \in RasterExts : endswith(url_l, e)

\* f"Unsupported image type: {ct or 'unknown'}"
unsupported_msg(ct) ==
    <<"Unsupported image type: ">> \o (IF ct = <<>> THEN unknown ELSE ct)

fetch_image_bytes(url, resp, cairo) ==
    IF get_raises(resp) THEN Raise("get", get_exception(resp), <<>>)
    ELSE
    LET ct == declared_ct(resp)
        url_l == lower(url)
    IN  IF is_svg(ct, url_l) THEN
            IF ~cairo
            THEN Raise("svg", "ValueError",
                       <<"SVG found but cairosvg not installed on server.">>)
            ELSE svg2png(resp.body)
        ELSE IF is_webp(ct, url_l) THEN pil_to_png(resp.body)
        ELSE IF ct_is_raster(ct) THEN Return("pass", resp.body)
        ELSE IF url_is_raster(url_l) THEN Return("pass", resp.body)
        ELSE Raise("none", "ValueError", unsupported_msg(ct))

-----------------------------------------------------------------------------
Host == <<"h","t","t","p",":","/","/","h","/","a">>

-----------------------------------------------------------------------------
(* _hex_to_rgb *)

HexDigits == <<"0","1","2","3","4","5","6","7","8","9","a","b","c","d","e","f">>
IsHex(c) == \E i \in 1..Len(HexDigits) : HexDigits[i] = LowerChar(c)
HexVal(c) == (CHOOSE i \in 1..Len(HexDigits) : HexDigits[i] = LowerChar(c)) - 1

RECURSIVE lstrip_hash(_)
\* h.lstrip("#")
lstrip_hash(h) == IF h # <<>> /\ Head(h) = "#" THEN lstrip_hash(Tail(h)) ELSE h

\* "".join([c*2 for c in h])
doubled(h) == [i \in 1..(2 * Len(h)) |-> h[(i + 1) \div 2]]

\* int(h[a:a+2], 16) raises ValueError unless both characters are hex digits
hex_to_rgb(hex_str) ==
    LET h0 == lstrip_hash(hex_str)
        h == IF Len(h0) = 3 THEN doubled(h0) ELSE h0
    IN  IF Len(h) # 6 THEN [ok |-> FALSE, rgb |-> <<>>]
        ELSE IF \E i \in 1..6 : ~IsHex(h[i]) THEN [ok |-> FALSE, rgb |-> <<>>]
        ELSE [ok |-> TRUE,
              rgb |-> [k \in 1..3 |-> 16 * HexVal(h[2 * k - 1]) + HexVal(h[2 * k])]]

Colors == {
    <<"#","1","E","8","8","E","5">>,
    <<"f","f","f">>,
    <<"r","e","d">>,
    <<"1","2","3","4","5">> }

-----------------------------------------------------------------------------
(* Lengths.  Python works in EMU (914400 to the inch); here a vertical     *)
(* length is in fiftieths of an inch and a horizontal one in quarters of   *)
(* an inch, the coarsest units in which every length below is a whole      *)
(* number that fits TLC's integers.                                        *)

VPerInch == 50
QPerInch == 4
\* top = Inches(2.8)
Top0 == 140
\* max_width = Inches(6.5)
max_width == 26
\* Inches(0.24), the gap below a picture
PicGap == 12
\* prs.slide_width of the default template: 10 inches
SlideWidth == 40
\* python-pptx's range of an <a:off> coordinate, +-27273042329600 EMU or so,
\* checked when pic.left is assigned
CoordMin == -119304647
CoordMax == 119304647

\* int(x / 2)
half(x) == IF x >= 0 THEN x \div 2 ELSE -((-x) \div 2)

\* The fetched images are square: scaling one side gives the other.
scaled_height(w) == IF w >= 0 THEN (w * VPerInch) \div QPerInch
                    ELSE -(((-w) * VPerInch) \div QPerInch)
scaled_width(h) == IF h >= 0 THEN (h * QPerInch) \div VPerInch
                   ELSE -(((-h) * QPerInch) \div VPerInch)

-----------------------------------------------------------------------------
(* The payload: image items (width_inch / height_inch in whole inches, 0   *)
(* for an absent or zero value, which Python treats alike).                *)

UrlPng == Host \o dot_png
UrlSvg == Host \o dot_svg

UrlNoExt == Host

Items == {
    [url |-> UrlNoExt, width_inch |-> 0, height_inch |-> 0, caption |-> FALSE],
    [url |-> UrlPng, width_inch |-> 3, height_inch |-> 0, caption |-> TRUE],
    [url |-> UrlPng, width_inch |-> 0, height_inch |-> -1, caption |-> FALSE],
    [url |-> UrlSvg, width_inch |-> 60000000, height_inch |-> 2, caption |-> FALSE] }

\* content slides in a payload, image references in a payload, requests served
MaxSlides == 2
MaxImages == 2
MaxRequests == 2

RECURSIVE SeqsUpTo(_, _)
SeqsUpTo(S, n) ==
    IF n = 0 THEN {<<>>}
    ELSE LET shorter == SeqsUpTo(S, n - 1)
         IN  shorter \cup {Append(q, x) : q \in {t \in shorter : Len(t) = n - 1}, x \in S}

\* The items that give no dimensions.
PlainItems == {it \in Items : it.width_inch = 0 /\ it.height_inch = 0}

\* What the image servers may answer during a build.
BuildResponses == {
    [status |-> "ok", ct |-> Header(image_png),
     body |-> [enc |-> "png", intact |-> TRUE, by |-> "origin"]],
    [status |-> "ok", ct |-> Header(image_svg \o <<"+","x","m","l">>),
     body |-> [enc |-> "svg", intact |-> TRUE, by |-> "origin"]],
    [status |-> "ok", ct |-> Header(image_svg \o <<"+","x","m","l">>),
     body |-> [enc |-> "svg", intact |-> FALSE, by |-> "origin"]],
    [status |-> "ok", ct |-> Header(image_webp),
     body |-> [enc |-> "webp", intact |-> FALSE, by |-> "origin"]],
    [status |-> "ok", ct |-> NoHeader,
     body |-> [enc |-> "html", intact |-> TRUE, by |-> "origin"]],
    [status |-> "conn_error", ct |-> NoHeader, body |-> NoBuf],
    [status |-> "http_error", ct |-> NoHeader, body |-> NoBuf],
    [status |-> "timeout", ct |-> NoHeader, body |-> NoBuf] }

-----------------------------------------------------------------------------
(* build_pptx: one loop iteration over s.images *)

\* slide.shapes.add_picture raises on a stream that is no image it can read
add_picture_raises(buf) == ~(buf.intact /\ buf.enc \in {"png", "jpeg", "gif", "bmp"})

\* The four add_picture calls: the picture's width and height
pic_size(item) ==
    IF item.width_inch # 0 /\ item.height_inch # 0
    THEN [w |-> item.width_inch * QPerInch, h |-> item.height_inch * VPerInch]
    ELSE IF item.width_inch # 0
    THEN [w |-> item.width_inch * QPerInch,
          h |-> scaled_height(item.width_inch * QPerInch)]
    ELSE IF item.height_inch # 0
    THEN [w |-> scaled_width(item.height_inch * VPerInch),
          h |-> item.height_inch * VPerInch]
    ELSE [w |-> max_width, h |-> scaled_height(max_width)]

\* Only ValueError is caught.
caught_value_error_only(exc) == exc = "ValueError"

\* except Exception as e
caught(exc) == TRUE

\* p = body.add_paragraph(); p.text = f"[Image failed: {img.url} - {str(e)}]"
\* (the bullet is kept with its URL; the text of str(e) is left out)
image_failed(slide, i, item) ==
    [slide EXCEPT !.body = Append(@, [kind |-> "failed", img |-> i, url |-> item.url])]

\* The except clause: a caught exception leaves a placeholder bullet and top as it
\* was; one not caught leaves build_pptx.
on_exception(slide, i, item, exc, top) ==
    IF caught(exc)
    THEN [slide |-> image_failed(slide, i, item), top |-> top, raised |-> FALSE]
    ELSE [slide |-> slide, top |-> top, raised |-> TRUE]

\* The try block for image number i of the slide, against the server's response.
try_image(slide, i, item, top, resp, cairo) ==
    LET r == fetch_image_bytes(item.url, resp, cairo)
    IN  IF r.kind = "raise" THEN on_exception(slide, i, item, r.exc, top)
        ELSE IF add_picture_raises(r.buf)
        THEN on_exception(slide, i, item, "UnidentifiedImageError", top)
        ELSE
        LET size == pic_size(item)
            left == half(SlideWidth - size.w)
            placed == [slide EXCEPT !.pics =
                          Append(@, [img |-> i, top |-> top, left |-> QPerInch,
                                     w |-> size.w, h |-> size.h])]
        IN  IF left < CoordMin \/ left > CoordMax
            THEN \* pic.left = ... raises ValueError, the picture is on the slide
                 on_exception(placed, i, item, "ValueError", top)
            ELSE [slide |->
                    [placed EXCEPT
                        !.pics[Len(placed.pics)].left = left,
                        !.caps = IF item.caption
                                 THEN Append(@, [img |-> i, top |-> top + size.h + 4])
                                 ELSE @],
                  top |-> top + size.h + PicGap,
                  raised |-> FALSE]

\* What the iteration adds to the log: the GET, and the normalisation if the GET
\* did not raise.
image_events(si, i, item, resp) ==
    <<[ev |-> "get", slide |-> si, img |-> i, url |-> item.url]>>
    \o (IF get_raises(resp) THEN <<>>
        ELSE <<[ev |-> "normalize", slide |-> si, img |-> i, url |-> item.url]>>)

-----------------------------------------------------------------------------
(* The routes and the steps of build_pptx *)

NoCall == [url |-> <<>>, resp |-> [status |-> "none", ct |-> NoHeader, body |-> NoBuf],
           cairo |-> FALSE]
NoReq == [file_name |-> "", footer |-> FALSE]
NoCur == [images |-> <<>>, i |-> 0, top |-> 0]
NoServe == [name |-> "", status |-> 0, saved_before |-> FALSE]

\* What os.path.exists finds in FILES_DIR besides the files saved there.
DirEntries == {".", ".."}

ServiceIdle ==
    /\ HAS_CAIROSVG = TRUE
    /\ files = {}
    /\ nextId = 1
    /\ pc = "idle"
    /\ req = NoReq
    /\ doc = <<>>
    /\ cur = NoCur
    /\ net = <<>>
    /\ responses = <<>>
    /\ lastServe = NoServe
    /\ sent = PlainItems

\* uuid.uuid4().hex: a fresh identifier on every call, the n-th one here
uuid4_hex(n) == <<"0a", "1b", "2c", "3d", "4e", "5f", "6a", "7b">>[n]

\* filename = f"{file_id}.pptx"
filename(n) == uuid4_hex(n) \o ".pptx"

\* fetch_bytes: requests.get, raise_for_status
fetch_bytes_raises(status) == status # "ok"

NewSlide(images) == [pics |-> <<>>, caps |-> <<>>, body |-> <<>>, images |-> images,
                     footer |-> FALSE]

\* POST /pptx/create with a body pydantic rejects: 422, the handler never runs.
CreateInvalid ==
    /\ pc = "idle"
    /\ Len(responses) < MaxRequests
    /\ responses' = Append(responses, [status |-> 422, file_name |-> ""])
    /\ UNCHANGED <<fcall, fret, HAS_CAIROSVG, files, nextId, pc, req, doc, cur, net, lastServe, sent>>

\* create_pptx up to the call of build_pptx: file_id = uuid.uuid4().hex
Create ==
    /\ pc = "idle"
    /\ Len(responses) < MaxRequests
    /\ \E footer \in BOOLEAN : req' = [file_name |-> filename(nextId), footer |-> footer]
    /\ nextId' = nextId + 1
    /\ pc' = "theme"
    /\ doc' = <<>>
    /\ cur' = NoCur
    /\ net' = <<>>
    /\ UNCHANGED <<fcall, fret, HAS_CAIROSVG, files, responses, lastServe, sent>>

\* if payload.theme_url: prs = Presentation(io.BytesIO(fetch_bytes(...))) ...
ChooseTheme ==
    /\ pc = "theme"
    /\ \E theme_url \in BOOLEAN, status \in {"ok", "http_error", "conn_error", "timeout"},
          is_pptx \in BOOLEAN :
          pc' = IF theme_url /\ (fetch_bytes_raises(status) \/ ~is_pptx)
                THEN "failed" ELSE "color"
    /\ UNCHANGED <<fcall, fret, HAS_CAIROSVG, files, nextId, req, doc, cur, net, responses, lastServe, sent>>

\* rgb = _hex_to_rgb(payload.primary_color) if payload.primary_color else None
PrimaryColor ==
    /\ pc = "color"
    /\ \E primary_color \in Colors \cup {<<>>} :
          pc' = IF primary_color # <<>> /\ ~hex_to_rgb(primary_color).ok
                THEN "failed" ELSE "logo"
    /\ UNCHANGED <<fcall, fret, HAS_CAIROSVG, files, nextId, req, doc, cur, net, responses, lastServe, sent>>

\* logo_stream = io.BytesIO(fetch_bytes(str(payload.logo_url))) if payload.logo_url else None
FetchLogo ==
    /\ pc = "logo"
    /\ \E logo_url \in BOOLEAN, status \in {"ok", "http_error", "conn_error", "timeout"} :
          pc' = IF logo_url /\ fetch_bytes_raises(status) THEN "failed" ELSE "title"
    /\ UNCHANGED <<fcall, fret, HAS_CAIROSVG, files, nextId, req, doc, cur, net, responses, lastServe, sent>>

\* The title slide
TitleSlide ==
    /\ pc = "title"
    /\ doc' = <<NewSlide(<<>>)>>
    /\ pc' = "slides"
    /\ UNCHANGED <<fcall, fret, HAS_CAIROSVG, files, nextId, req, cur, net, responses, lastServe, sent>>

\* The image references of the slides built so far.
RECURSIVE image_refs(_)
image_refs(d) == IF d = <<>> THEN 0 ELSE Len(Head(d).images) + image_refs(Tail(d))

\* for s in payload.slides: the slide, its title and bullets, and the start of
\* the loop over s.images
BeginSlide ==
    /\ pc = "slides"
    /\ Len(doc) - 1 < MaxSlides
    /\ \E images \in SeqsUpTo(sent, MaxImages - image_refs(doc)) :
          /\ doc' = Append(doc, [NewSlide(images) EXCEPT !.body = <<[kind |-> "bullet"]>>])
          /\ cur' = [images |-> images, i |-> 1, top |-> Top0]
          /\ pc' = IF images = <<>> THEN "slides" ELSE "images"
    /\ UNCHANGED <<fcall, fret, HAS_CAIROSVG, files, nextId, req, net, responses, lastServe, sent>>

\* for img in s.images: try ... except
ProcessImage ==
    /\ pc = "images"
    /\ \E resp \in BuildResponses :
          LET si == Len(doc)
              item == cur.images[cur.i]
              out == try_image(doc[si], cur.i, item, cur.top, resp, HAS_CAIROSVG)
          IN  /\ net' = net \o image_events(si, cur.i, item, resp)
              /\ doc' = [doc EXCEPT ![si] = out.slide]
              /\ cur' = [cur EXCEPT !.i = @ + 1, !.top = out.top]
              /\ pc' = IF out.raised THEN "failed"
                       ELSE IF cur.i = Len(cur.images) THEN "slides" ELSE "images"
    /\ UNCHANGED <<fcall, fret, HAS_CAIROSVG, files, nextId, req, responses, lastServe, sent>>

\* if payload.footer: a text box on every slide
Footer ==
    /\ pc = "slides"
    /\ doc' = IF req.footer THEN [k \in 1..Len(doc) |-> [doc[k] EXCEPT !.footer = TRUE]]
              ELSE doc
    /\ pc' = "save"
    /\ UNCHANGED <<fcall, fret, HAS_CAIROSVG, files, nextId, req, cur, net, responses, lastServe, sent>>

\* prs.save(output_path)
Save ==
    /\ pc = "save"
    /\ files' = files \cup {req.file_name}
    /\ pc' = "saved"
    /\ UNCHANGED <<fcall, fret, HAS_CAIROSVG, nextId, req, doc, cur, net, responses, lastServe, sent>>

\* return JSONResponse({"download_url": ..., "file_name": filename})
Respond ==
    /\ pc = "saved"
    /\ responses' = Append(responses, [status |-> 200, file_name |-> req.file_name])
    /\ pc' = "idle"
    /\ req' = NoReq
    /\ doc' = <<>>
    /\ cur' = NoCur
    /\ net' = <<>>
    /\ UNCHANGED <<fcall, fret, HAS_CAIROSVG, files, nextId, lastServe, sent>>

\* An exception left build_pptx and create_pptx: 500 Internal Server Error.
ServerError ==
    /\ pc = "failed"
    /\ responses' = Append(responses, [status |-> 500, file_name |-> req.file_name])
    /\ pc' = "idle"
    /\ req' = NoReq
    /\ doc' = <<>>
    /\ cur' = NoCur
    /\ net' = <<>>
    /\ UNCHANGED <<fcall, fret, HAS_CAIROSVG, files, nextId, lastServe, sent>>

\* The file names a client asks for: generated ones, one never generated, and the
\* directory entries every directory has.
Names == {filename(n) : n \in 1..(MaxRequests + 1)} \cup DirEntries

\* os.path.exists(os.path.join(FILES_DIR, filename))
exists(name, fs) == name \in fs \/ name \in DirEntries

\* serve_file: 404 if the path does not exist; FileResponse sends a regular file
\* and raises (500) on anything else.
serve_file(name, fs) ==
    IF ~exists(name, fs) THEN 404
    ELSE IF name \in fs THEN 200 ELSE 500

\* The names whose create request has saved its document so far.
SavedSoFar ==
    {responses[k].file_name : k \in {j \in 1..Len(responses) : responses[j].status = 200}}
    \cup (IF pc = "saved" THEN {req.file_name} ELSE {})

\* GET /files/{filename}
ServeFile ==
    /\ pc = "idle"
    /\ \E name \in Names :
          lastServe' = [name |-> name, status |-> serve_file(name, files),
                        saved_before |-> name \in SavedSoFar]
    /\ UNCHANGED <<fcall, fret, HAS_CAIROSVG, files, nextId, pc, req, doc, cur, net, responses, sent>>

BuildStep ==
    \/ ChooseTheme
    \/ PrimaryColor
    \/ FetchLogo
    \/ TitleSlide
    \/ BeginSlide
    \/ ProcessImage
    \/ Footer
    \/ Save

Init ==
    /\ ServiceIdle
    /\ fcall = NoCall
    /\ fret = Pending

Next ==
    \/ CreateInvalid
    \/ Create
    \/ BuildStep
    \/ Respond
    \/ ServerError
    \/ ServeFile

Spec == Init /\ [][Next]_vars

\* One call of build_pptx(payload, path), from its first line to save or raise.
InitBuild ==
    /\ HAS_CAIROSVG \in BOOLEAN
    /\ files = {}
    /\ nextId = 2
    /\ pc = "theme"
    /\ req \in [file_name : {filename(1)}, footer : BOOLEAN]
    /\ doc = <<>>
    /\ cur = NoCur
    /\ net = <<>>
    /\ responses = <<>>
    /\ lastServe = NoServe
    /\ sent = Items
    /\ fcall = NoCall
    /\ fret = Pending

NextBuild == BuildStep

SpecBuild == InitBuild /\ [][NextBuild]_vars

-----------------------------------------------------------------------------
(* The inputs fetch_image_bytes is exercised on *)

Urls == {
    Host \o dot_svg, Host \o dot_webp, Host \o dot_png, Host \o dot_jpg,
    Host \o dot_jpeg, Host \o dot_gif,
    Host \o <<".","P","N","G">>,                    \* upper-case extension
    Host \o <<".","S","v","g">>,
    Host,                                           \* no extension
    Host \o dot_png \o <<"?","v","=","1">>,         \* query after the extension
    Host \o <<".","b","m","p">> }

HeaderValues == {
    <<>>,
    image_png, image_jpeg, image_jpg, image_gif,
    image_svg \o <<"+","x","m","l">>, image_webp,
    <<"I","m","a","g","e","/","P","N","G">>,
    image_png \o <<";","q","=","1">>,
    <<"T","e","x","t","/","H","T","M","L">>,
    <<"a","p","p","l","i","c","a","t","i","o","n","/","o","c","t","e","t">> }

Headers == {NoHeader} \cup {Header(v) : v \in HeaderValues}

Responses ==
    [status : {"ok"}, ct : Headers, body : Bodies]
    \cup [status : {"http_error", "conn_error", "timeout"}, ct : {NoHeader},
          body : {[enc |-> "html", intact |-> TRUE, by |-> "origin"]}]

InitFetch ==
    /\ fcall \in [url : Urls, resp : Responses, cairo : BOOLEAN]
    /\ fret = Pending
    /\ ServiceIdle

\* One call of fetch_image_bytes(url) against the chosen response.
CallFetch ==
    /\ fret = Pending
    /\ fret' = fetch_image_bytes(fcall.url, fcall.resp, fcall.cairo)
    /\ UNCHANGED fcall
    /\ UNCHANGED svars

NextFetch == CallFetch

SpecFetch == InitFetch /\ [][NextFetch]_vars

-----------------------------------------------------------------------------
(* Claims about fetch_image_bytes, checked under SpecFetch *)

Fetched == fret # Pending /\ fcall.resp.status = "ok"
SentCt == lower(IF fcall.resp.ct.present THEN fcall.resp.ct.value ELSE <<>>)
UrlLower == lower(fcall.url)
NamesRaster(ct) == \E t \in RasterTypes : contains(t, ct)
Recognised(ct) == contains(image_svg, ct) \/ contains(image_webp, ct) \/ NamesRaster(ct)
TypeBranch(ct) ==
    IF contains(image_svg, ct) THEN "svg"
    ELSE IF contains(image_webp, ct) THEN "webp" ELSE "pass"
EndsIn(exts) == \E e \in exts : endswith(UrlLower, e)
RecognisedExts == {dot_svg, dot_webp} \cup RasterExts

\* C4 (as stated): a fetched response whose declared content-type names PNG, JPEG
\* or GIF is returned byte-identical to the response body, whatever the URL's suffix.
C4_PassThroughAnySuffix ==
    (Fetched /\ NamesRaster(SentCt)) =>
        (fret.kind = "return" /\ fret.buf = fcall.resp.body)

\* C5 (as stated): when the response declares a recognised type, the branch taken
\* is the one that declared type selects, whatever the URL's suffix.
C5_DeclaredTypeDecides ==
    (Fetched /\ Recognised(SentCt)) => fret.branch = TypeBranch(SentCt)

\* C6 (as stated): every returned buffer really is PNG, JPEG or GIF data; any other
\* payload is converted to PNG or rejected.
C6_ReturnedIsEmbeddable ==
    (fret # Pending /\ fret.kind = "return") => fret.buf.enc \in {"png", "jpeg", "gif"}

\* C7 (as stated): with a missing or empty Content-Type and a URL ending in a
\* recognised image extension, fetch_image_bytes succeeds and returns a buffer.
C7_FallbackAlwaysSucceeds ==
    (Fetched /\ SentCt = <<>> /\ EndsIn(RecognisedExts)) => fret.kind = "return"

\* C7 (amended): with a missing or empty Content-Type and a URL ending in a
\* recognised extension the unsupported-type error is never raised and the branch is
\* the one the extension selects: the body unchanged for .png/.jpg/.jpeg/.gif; for
\* .svg a PNG exactly when cairosvg is installed and the body is well-formed SVG;
\* for .webp a PNG exactly when Pillow decodes the body; otherwise that branch's
\* own error (missing rasterizer, parse error, decode error).
C7_FallbackByExtension ==
    (Fetched /\ SentCt = <<>> /\ EndsIn(RecognisedExts)) =>
        /\ ~(fret.kind = "raise" /\ fret.branch = "none")
        /\ EndsIn({dot_svg}) =>
              /\ fret.branch = "svg"
              /\ fret.kind = "return" <=>
                    (fcall.cairo /\ fcall.resp.body.enc = "svg" /\ fcall.resp.body.intact)
              /\ fret.kind = "return" => fret.buf.enc = "png" /\ fret.buf.by = "cairosvg"
              /\ (fret.kind = "raise" /\ ~fcall.cairo) => fret.exc = "ValueError"
        /\ (~EndsIn({dot_svg}) /\ EndsIn({dot_webp})) =>
              /\ fret.branch = "webp"
              /\ fret.kind = "return" <=>
                    (fcall.resp.body.enc \in PILFormats /\ fcall.resp.body.intact)
              /\ fret.kind = "return" => fret.buf.enc = "png" /\ fret.buf.by = "pil"
        /\ EndsIn(RasterExts) => fret = Return("pass", fcall.resp.body)

\* C7 witness: no Content-Type header, an upper-case .PNG URL, and the body came
\* back unchanged through the extension fallback.
C7_Witness ==
    /\ Fetched /\ ~fcall.resp.ct.present
    /\ fcall.url = Host \o <<".","P","N","G">>
    /\ fret = Return("pass", fcall.resp.body)

\* C8: a fetched response whose declared content-type contains none of the six
\* image types and whose URL ends in none of the six extensions yields no buffer
\* and an error naming the lower-cased content-type, or 'unknown' when none was sent.
C8_UnsupportedNamesType ==
    (Fetched /\ ~Recognised(SentCt) /\ ~EndsIn(RecognisedExts)) =>
        /\ fret.kind = "raise" /\ fret.buf = NoBuf
        /\ fret.exc = "ValueError"
        /\ fret.msg = <<"Unsupported image type: ">> \o
                        (IF fcall.resp.ct.present /\ fcall.resp.ct.value # <<>>
                         THEN lower(fcall.resp.ct.value) ELSE unknown)

\* C8 witness: Content-Type "Text/HTML", a URL without extension, and the error
\* names "text/html".
C8_Witness ==
    /\ Fetched
    /\ fcall.resp.ct = Header(<<"T","e","x","t","/","H","T","M","L">>)
    /\ fcall.url = Host
    /\ fret.kind = "raise"
    /\ fret.msg = <<"Unsupported image type: ", "t","e","x","t","/","h","t","m","l">>

-----------------------------------------------------------------------------
(* Claims about build_pptx, checked under SpecBuild *)

\* The content slides of the deck: doc[1] is the title slide.
ContentSlides == 2..Len(doc)
Refs(k) == 1..Len(doc[k].images)
PicsOf(k, i) == {n \in 1..Len(doc[k].pics) : doc[k].pics[n].img = i}
FailedOf(k, i) ==
    {n \in 1..Len(doc[k].body) :
        /\ doc[k].body[n].kind = "failed"
        /\ doc[k].body[n].img = i}
HasOutcome(k, i) == PicsOf(k, i) # {} \/ FailedOf(k, i) # {}
LoopDone == pc \in {"save", "saved"}
GetsOf(k, i) ==
    {n \in 1..Len(net) : net[n].ev = "get" /\ net[n].slide = k /\ net[n].img = i}

\* C1: a failure of fetch_image_bytes for one image never aborts the build: no
\* exception leaves build_pptx once the image loop has made a request, every
\* image requested has ended in a picture or a placeholder, inside the loop there
\* is a next image to process, after it the footer step and the save can be
\* taken, and at the end every image of
\* every slide has been processed, the footer step has run and the document is
\* saved.
C1_ImageFailureNeverAborts ==
    /\ pc = "failed" => net = <<>>
    /\ \A n \in 1..Len(net) : HasOutcome(net[n].slide, net[n].img)
    /\ pc = "images" => cur.i \in 1..Len(cur.images)
    /\ (pc = "slides" /\ net # <<>>) => ENABLED Footer
    /\ (pc = "save" /\ net # <<>>) => ENABLED Save
    /\ pc = "saved" =>
          /\ \A k \in ContentSlides : \A i \in Refs(k) : HasOutcome(k, i)
          /\ \A k \in 1..Len(doc) : doc[k].footer = req.footer
          /\ req.file_name \in files

\* C1 witness: the document is saved with its footer on both content slides; on
\* the second one image 1 failed and image 2 was placed.
C1_Witness ==
    /\ pc = "saved" /\ req.footer /\ req.file_name \in files
    /\ Len(doc) = 3
    /\ Len(doc[3].images) = 2
    /\ FailedOf(3, 1) # {}
    /\ PicsOf(3, 1) = {} /\ PicsOf(3, 2) # {}
    /\ doc[2].footer /\ doc[3].footer

\* C2 (as stated): when the slide loop has completed, every image reference has
\* exactly one outcome: one picture and no placeholder, or no picture and one
\* placeholder naming its URL.
C2_ExactlyOneOutcome ==
    LoopDone =>
        \A k \in ContentSlides : \A i \in Refs(k) :
            \/ Cardinality(PicsOf(k, i)) = 1 /\ FailedOf(k, i) = {}
            \/ /\ PicsOf(k, i) = {}
               /\ Cardinality(FailedOf(k, i)) = 1
               /\ \A n \in FailedOf(k, i) : doc[k].body[n].url = doc[k].images[i].url

\* The parts of C9 about the order of the work: one GET per image reference,
\* normalisation only after the image's own GET, requests in input order, image
\* i+1 requested only once image i has its outcome, pictures and placeholders
\* added in input order.
C9_WorkInInputOrder ==
    /\ LoopDone => \A k \in ContentSlides : \A i \in Refs(k) : Cardinality(GetsOf(k, i)) = 1
    /\ \A n \in 1..Len(net) :
          net[n].ev = "normalize" =>
              /\ n > 1
              /\ net[n - 1] = [net[n] EXCEPT !.ev = "get"]
    /\ \A m, n \in 1..Len(net) :
          m < n => \/ net[m].slide < net[n].slide
                   \/ net[m].slide = net[n].slide /\ net[m].img <= net[n].img
    /\ \A n \in 1..Len(net) :
          \A j \in 1..(net[n].img - 1) : HasOutcome(net[n].slide, j)
    /\ \A k \in ContentSlides :
          /\ \A m, n \in 1..Len(doc[k].pics) :
                m < n => doc[k].pics[m].img < doc[k].pics[n].img
          /\ \A m, n \in 1..Len(doc[k].body) :
                (m < n /\ doc[k].body[m].kind = "failed") =>
                    /\ doc[k].body[n].kind = "failed"
                    /\ doc[k].body[m].img < doc[k].body[n].img

\* C9 (as stated): the order of the work as above, and the placed pictures lie
\* top to bottom in input order: a later picture's top edge is below an earlier one's.
C9_SequentialTopToBottom ==
    /\ C9_WorkInInputOrder
    /\ \A k \in ContentSlides :
          \A m, n \in 1..Len(doc[k].pics) :
              m < n => doc[k].pics[m].top < doc[k].pics[n].top

-----------------------------------------------------------------------------
(* Claims about the routes, checked under Spec *)

\* C3 (as stated): only a malformed payload ends POST /pptx/create with an error
\* response; once validation has passed the build completes and a download_url
\* is returned.
C3_OnlyValidationFails ==
    \A n \in 1..Len(responses) : responses[n].status \in {200, 422}

\* C10 (as stated): GET /files/{name} returns a document exactly when name is the
\* file_name of an earlier create request that saved its file, and 404 for every
\* other name; a failed create leaves no file; a returned file_name stays servable.
C10_ServedIffSaved ==
    /\ lastServe # NoServe =>
          /\ lastServe.status = 200 <=> lastServe.saved_before
          /\ lastServe.status # 200 => lastServe.status = 404
    /\ \A n \in 1..Len(responses) :
          /\ responses[n].status = 200 => serve_file(responses[n].file_name, files) = 200
          /\ responses[n].status = 500 => serve_file(responses[n].file_name, files) = 404

\* The part of C10 that holds: for names other than "." and "..".
C10_ServedIffSavedRegularNames ==
    /\ (lastServe # NoServe /\ lastServe.name \notin DirEntries) =>
          /\ lastServe.status = 200 <=> lastServe.saved_before
          /\ lastServe.status # 200 => lastServe.status = 404
    /\ \A n \in 1..Len(responses) :
          /\ responses[n].status = 200 => serve_file(responses[n].file_name, files) = 200
          /\ responses[n].status = 500 => serve_file(responses[n].file_name, files) = 404

====
